---- MODULE Spec2Model ----
(***************************************************************************)
(* A model of src/lib.rs of ffmpeg-cli: the invocation builder             *)
(* (FfmpegBuilder::to_command), the progress parser (read_progress, run by *)
(* the task FfmpegBuilder::spawn starts) and the process session           *)
(* (Ffmpeg::wait).  The specifications share the variables:                *)
(*   SpecCmd       to_command, statement by statement;                     *)
(*   SpecProgress  the background task: accept, then read_progress;        *)
(*   Spec          a spawned session, its child and the calls of wait();   *)
(*   FairSpec      Spec with the fairness of the executor polling wait();  *)
(*   SpecRun       spawn, then session, child and background task together *)
(*                 until the session is dropped; FairRun adds the fairness.*)
(***************************************************************************)
EXTENDS Integers, Sequences, FiniteSets, TLC

VARIABLES
  \* ---- FfmpegBuilder / Ffmpeg fields (lib.rs 55-65, 153-162)
  global_options,   \* Vec<OsString>
  input_options,    \* Vec<OsString>
  input,            \* Input: [kind |-> "File", path |-> p] or [kind |-> "Stream", ...]
  output_options,   \* Vec<OsString>
  output,           \* Output, as input
  \* ---- to_command (lib.rs 72-105)
  progress_url,     \* the argument of to_command
  cmd,              \* the Command being built: [args, stdin, stdout]
  cpc,              \* the statement to_command is at
  \* ---- the background task and read_progress (lib.rs 113-116, 129-151)
  ptask,            \* "accepting", "reading", "ended", "panic114", "panic134", "panic138" ("off": not modelled)
  lines,            \* what the progress connection will still deliver
  progress,         \* the accumulator, a Progress
  dbged,            \* the records written by dbg! (lib.rs 141), in order
  queue,            \* the records sent on progress_tx, as progress_rx would read them
  tx_open,          \* progress_tx has not been dropped
  fed,              \* history: the lines the loop body has processed
  last_read,        \* history: what next_line last returned: "none", "line", "eof", "err"
  \* ---- spawn (lib.rs 107-126) and the TempSocket (lib.rs 6-31)
  spc,              \* the statement spawn() is at; "ret_ok", "err108", "err110" when over
  sock_dir,         \* the TempDir of the socket: "none", "exists", "removed"
  \* ---- the session (lib.rs 153-213) and its child
  child_state,      \* "running" or "exited"
  exit_status,      \* "none" while running, then "success" or "failure"
  reaped,           \* a child.wait() of this session has returned the exit status
  child_stdout,     \* Child::stdout: "Some" or "None"
  child_stdin,      \* Child::stdin: "Some" or "None"
  written,          \* history: the bytes the child has written to its stdout
  out_pipe,         \* bytes in the stdout pipe, not yet read by the drain loop
  out_closed,       \* the child has closed its end of stdout
  sink,             \* the bytes the caller's output stream has received
  source,           \* the bytes the caller's input stream will still deliver
  source_ends,      \* whether that stream reaches end-of-input after them
  in_pipe,          \* bytes in the stdin pipe, not yet read by the child
  stdin_open,       \* the session's end of the child's stdin is open
  stdout_open,      \* the session's end of the child's stdout is open
  drain,            \* the `stdout` future of wait(): "unborn", "pending", "ok", "err", "cancelled"
  fill,             \* the `stdin` future of wait(), as drain
  pc,               \* wait(): "idle", "l175", "l176", "l199", "l207", "ret_ok", "ret_err", "panic175", "panic176", "panic208"
  wait_calls,       \* how many times wait() has been called on the session
  result            \* what the last wait() returned: "none", "Ok", "Err"

builderVars == <<global_options, input_options, input, output_options, output>>
cmdVars     == <<progress_url, cmd, cpc>>
parserVars  == <<ptask, lines, progress, dbged, queue, tx_open, fed, last_read>>
spawnVars   == <<spc, sock_dir>>
childVars   == <<child_state, exit_status, reaped, child_stdout, child_stdin,
                 written, out_pipe, out_closed, in_pipe>>
waitVars    == <<sink, source, source_ends, stdin_open, stdout_open, drain, fill,
                 pc, wait_calls, result>>
vars == <<builderVars, cmdVars, parserVars, spawnVars, childVars, waitVars>>

----------------------------------------------------------------------------
(* Bounds *)

\* longest option list of an invocation spec
MaxOpts == 2
\* most lines the progress connection delivers
MaxLines == 3
\* most bytes the child writes, and most bytes the caller's input holds
MaxBytes == 2
\* most calls of wait() on one session
MaxWaitCalls == 2

\* sequences over S of length at most n
RECURSIVE SeqsUpTo(_, _)
SeqsUpTo(S, n) ==
  IF n = 0 THEN {<<>>}
  ELSE LET shorter == SeqsUpTo(S, n - 1)
       IN  shorter \cup {Append(s, x) : s \in {t \in shorter : Len(t) = n - 1}, x \in S}

Opts  == {"-y", "-an"}
Paths == {"video.webm", "test2.mp3"}
Urls  == {"unix:///tmp/a/sock", "unix:///tmp/b/sock"}

\* enum Input / enum Output: File(PathBuf) | Stream(&mut _)
Targets == [kind : {"File"}, path : Paths] \cup [kind : {"Stream"}, path : {"<stream>"}]

----------------------------------------------------------------------------
(* FfmpegBuilder::to_command, lib.rs 72-105 *)

\* Command::arg / Command::args: append to the argument list
Arg(c, a)   == [c EXCEPT !.args = Append(@, a)]
Args(c, as) == [c EXCEPT !.args = @ \o as]

\* lib.rs 83-91: the input locator
InputLocatorSwapped(inp) == IF inp.kind = "File" THEN inp.path ELSE "pipe:1"
InputLocator(inp) == IF inp.kind = "File" THEN inp.path ELSE "pipe:0"

\* lib.rs 94-102: the output locator
OutputLocator(outp) == IF outp.kind = "File" THEN outp.path ELSE "pipe:1"

\* lib.rs 89: stdin is declared piped in the Stream arm only
StdinDeclAlways(inp, old) == "piped"
StdinDecl(inp, old) == IF inp.kind = "Stream" THEN "piped" ELSE old

\* lib.rs 100: stdout is declared piped in the Stream arm only
StdoutDecl(outp, old) == IF outp.kind = "Stream" THEN "piped" ELSE old

\* the parts of the state to_command neither reads nor writes
CmdFrame == UNCHANGED <<builderVars, progress_url, parserVars, spawnVars, childVars, waitVars>>

\* lib.rs 75
CommandNew ==
  /\ cpc = "l75"
  /\ cmd' = [args |-> <<>>, stdin |-> "inherit", stdout |-> "inherit"]
  /\ cpc' = "l77"
  /\ CmdFrame

\* lib.rs 77-78
ArgProgress ==
  /\ cpc = "l77"
  /\ cmd' = Arg(Arg(cmd, "-progress"), progress_url)
  /\ cpc' = "l79"
  /\ CmdFrame

\* lib.rs 79
ArgsGlobal ==
  /\ cpc = "l79"
  /\ cmd' = Args(cmd, global_options)
  /\ cpc' = "l81"
  /\ CmdFrame

\* lib.rs 81
ArgsInput ==
  /\ cpc = "l81"
  /\ cmd' = Args(cmd, input_options)
  /\ cpc' = "l82"
  /\ CmdFrame

\* lib.rs 82
ArgI ==
  /\ cpc = "l82"
  /\ cmd' = Arg(cmd, "-i")
  /\ cpc' = "l83"
  /\ CmdFrame

\* lib.rs 83-91
MatchInput ==
  /\ cpc = "l83"
  /\ cmd' = [Arg(cmd, InputLocator(input)) EXCEPT !.stdin = StdinDecl(input, @)]
  /\ cpc' = "l93"
  /\ CmdFrame

\* lib.rs 93
ArgsOutput ==
  /\ cpc = "l93"
  /\ cmd' = Args(cmd, output_options)
  /\ cpc' = "l94"
  /\ CmdFrame

\* lib.rs 94-102
MatchOutput ==
  /\ cpc = "l94"
  /\ cmd' = [Arg(cmd, OutputLocator(output)) EXCEPT !.stdout = StdoutDecl(output, @)]
  /\ cpc' = "l104"
  /\ CmdFrame

\* the values of the variables a specification does not use
NoCmd == [args |-> <<>>, stdin |-> "inherit", stdout |-> "inherit"]
\* struct Progress, lib.rs 164-167: Default is total_size = None
ProgressDefault == [total_size |-> <<>>]

BuilderInit ==
  /\ global_options \in SeqsUpTo(Opts, MaxOpts)
  /\ input_options  \in SeqsUpTo(Opts, MaxOpts)
  /\ output_options \in SeqsUpTo(Opts, MaxOpts)
  /\ input  \in Targets
  /\ output \in Targets

CmdIdle == progress_url = "" /\ cmd = NoCmd /\ cpc = "off"

ParserIdle ==
  /\ ptask = "off" /\ lines = <<>> /\ progress = ProgressDefault
  /\ dbged = <<>> /\ queue = <<>> /\ tx_open = TRUE /\ fed = <<>>
  /\ last_read = "none"

SpawnIdle == spc = "off" /\ sock_dir = "none"

SessionIdle ==
  /\ child_state = "off" /\ exit_status = "none" /\ reaped = FALSE
  /\ child_stdout = "None" /\ child_stdin = "None"
  /\ written = <<>> /\ out_pipe = <<>> /\ out_closed = FALSE /\ in_pipe = <<>>
  /\ sink = <<>> /\ source = <<>> /\ source_ends = FALSE
  /\ stdin_open = FALSE /\ stdout_open = FALSE
  /\ drain = "unborn" /\ fill = "unborn"
  /\ pc = "off" /\ wait_calls = 0 /\ result = "none"

InitCmd ==
  /\ BuilderInit
  /\ progress_url \in Urls
  /\ cmd = NoCmd
  /\ cpc = "l75"
  /\ ParserIdle
  /\ SpawnIdle
  /\ SessionIdle

NextCmd ==
  \/ CommandNew
  \/ ArgProgress
  \/ ArgsGlobal
  \/ ArgsInput
  \/ ArgI
  \/ MatchInput
  \/ ArgsOutput
  \/ MatchOutput

SpecCmd == InitCmd /\ [][NextCmd]_vars

----------------------------------------------------------------------------
(* The background task of spawn (lib.rs 113-116) and read_progress         *)
(* (lib.rs 129-151).  A line is the sequence of its pieces: "=" is the     *)
(* character '=', a digit is one piece, any other piece is a run of        *)
(* characters without '='.                                                 *)

\* Option<u64>
None    == <<>>
Some(v) == <<v>>

Digits == {"0", "1", "2", "3", "4", "5", "6", "7", "8", "9"}
DigitVal(c) ==
  CASE c = "0" -> 0 [] c = "1" -> 1 [] c = "2" -> 2 [] c = "3" -> 3 [] c = "4" -> 4
    [] c = "5" -> 5 [] c = "6" -> 6 [] c = "7" -> 7 [] c = "8" -> 8 [] c = "9" -> 9

\* str::split_once('='), lib.rs 135: the place of the first '=', 0 for none
RECURSIVE FirstEq(_, _)
FirstEq(line, i) ==
  IF i > Len(line) THEN 0
  ELSE IF line[i] = "=" THEN i
  ELSE FirstEq(line, i + 1)

HasEq(line) == FirstEq(line, 1) > 0
KeyOf(line) == SubSeq(line, 1, FirstEq(line, 1) - 1)
ValueOf(line) == SubSeq(line, FirstEq(line, 1) + 1, Len(line))

\* str::parse::<u64>, lib.rs 138: an optional '+', then one or more digits
\* (the lines of LineSet are too short to overflow 64 bits)
RECURSIVE DecimalOf(_, _)
DecimalOf(v, acc) ==
  IF v = <<>> THEN acc ELSE DecimalOf(Tail(v), 10 * acc + DigitVal(Head(v)))

Unsigned(v) == IF v # <<>> /\ Head(v) = "+" THEN Tail(v) ELSE v
ParsesU64(v) == Unsigned(v) # <<>> /\ \A i \in 1..Len(Unsigned(v)) : Unsigned(v)[i] \in Digits
ParseU64(v) == DecimalOf(Unsigned(v), 0)

\* lib.rs 142: what the accumulator is after a `progress` line
AfterSentinelKept(p) == p
AfterSentinel(p) == ProgressDefault

\* lib.rs 141: dbg!(progress) writes the record to stderr; nothing is sent
\* on progress_tx here or anywhere else in read_progress
OnSentinelQueue(q, p) == q

\* lib.rs 144-146: an unknown key is printed; the accumulator is not touched
OnUnknownKeyReset(p) == ProgressDefault
OnUnknownKey(p) == p

\* lib.rs 134: unwrap of a failed read panics; Ok(None) is the only way out
\* of the loop
ReadErrOutcomeEnds == "ended"
ReadErrOutcome == "panic134"

\* lib.rs 113: the task owns progress_sock (async move), so the TempDir is
\* dropped, and its directory removed, when the task ends or unwinds
DirAfterTaskEnd(d) == "removed"

L_size12345 == <<"total_size", "=", "1", "2", "3", "4", "5">>
L_size7     == <<"total_size", "=", "7">>
L_sizeNA    == <<"total_size", "=", "N/A">>
L_continue  == <<"progress", "=", "continue">>
L_bitrate   == <<"bitrate", "=", "1", ".", "5", "kbits/s">>
L_noEq      == <<"frame 12">>

\* the lines a progress connection may deliver
LineSet == {L_size12345, L_size7, L_sizeNA, L_continue, L_bitrate, L_noEq}

\* lib.rs 113: the task is detached (tokio::spawn, its JoinHandle dropped),
\* so its steps, its panics included, touch nothing of the session
ParserFrameAborting ==
  /\ UNCHANGED <<builderVars, cmdVars, spc, childVars>>
  /\ UNCHANGED <<sink, source, source_ends, stdin_open, stdout_open, drain, fill,
                 wait_calls, result>>
  /\ pc' = IF ptask' \in {"panic114", "panic134", "panic138"} /\ pc # "off"
           THEN "dropped" ELSE pc
ParserFrame == UNCHANGED <<builderVars, cmdVars, spc, childVars, waitVars>>

\* lib.rs 114, accept returns a connection; lib.rs 130-132
AcceptOk ==
  /\ ptask = "accepting"
  /\ ptask' = "reading"
  /\ progress' = ProgressDefault
  /\ UNCHANGED <<lines, dbged, queue, tx_open, fed, last_read, sock_dir>>
  /\ ParserFrame

\* lib.rs 114, accept fails: unwrap panics, the task ends and drops progress_tx
AcceptErr ==
  /\ ptask = "accepting"
  /\ ptask' = "panic114"
  /\ tx_open' = FALSE
  /\ sock_dir' = DirAfterTaskEnd(sock_dir)
  /\ UNCHANGED <<lines, progress, dbged, queue, fed, last_read>>
  /\ ParserFrame

\* lib.rs 134-149: next_line returns Ok(Some(line)); one turn of the loop
ReadLine ==
  /\ ptask = "reading"
  /\ lines # <<>>
  /\ LET line == Head(lines)
         k == KeyOf(line)
         v == ValueOf(line)
     IN  /\ lines' = Tail(lines)
         /\ last_read' = "line"
         /\ IF ~HasEq(line)
            THEN \* lib.rs 135: no '=', the line is skipped
                 /\ fed' = Append(fed, line)
                 /\ UNCHANGED <<ptask, progress, dbged, queue, tx_open, sock_dir>>
            ELSE IF k = <<"total_size">>
            THEN IF ParsesU64(v)
                 THEN \* lib.rs 138
                      /\ progress' = [progress EXCEPT !.total_size = Some(ParseU64(v))]
                      /\ fed' = Append(fed, line)
                      /\ UNCHANGED <<ptask, dbged, queue, tx_open, sock_dir>>
                 ELSE \* lib.rs 138: unwrap of the parse error panics
                      /\ ptask' = "panic138"
                      /\ tx_open' = FALSE
                      /\ sock_dir' = DirAfterTaskEnd(sock_dir)
                      /\ UNCHANGED <<progress, dbged, queue, fed>>
            ELSE IF k = <<"progress">>
            THEN \* lib.rs 140-143
                 /\ dbged' = Append(dbged, progress)
                 /\ queue' = OnSentinelQueue(queue, progress)
                 /\ progress' = AfterSentinel(progress)
                 /\ fed' = Append(fed, line)
                 /\ UNCHANGED <<ptask, tx_open, sock_dir>>
            ELSE \* lib.rs 144-146
                 /\ progress' = OnUnknownKey(progress)
                 /\ fed' = Append(fed, line)
                 /\ UNCHANGED <<ptask, dbged, queue, tx_open, sock_dir>>
  /\ ParserFrame

\* lib.rs 134: next_line returns Ok(None), the connection was closed; the
\* loop and the task end, progress_tx is dropped
ReadEof ==
  /\ ptask = "reading"
  /\ lines = <<>>
  /\ ptask' = "ended"
  /\ last_read' = "eof"
  /\ tx_open' = FALSE
  /\ sock_dir' = DirAfterTaskEnd(sock_dir)
  /\ UNCHANGED <<lines, progress, dbged, queue, fed>>
  /\ ParserFrame

\* lib.rs 134: next_line returns Err, unwrap panics
ReadErr ==
  /\ ptask = "reading"
  /\ ptask' = ReadErrOutcome
  /\ last_read' = "err"
  /\ tx_open' = FALSE
  /\ sock_dir' = DirAfterTaskEnd(sock_dir)
  /\ UNCHANGED <<lines, progress, dbged, queue, fed>>
  /\ ParserFrame

\* the builder of the repository's test, lib.rs 221-227
BuilderOfTest ==
  /\ global_options = <<>> /\ input_options = <<>> /\ output_options = <<>>
  /\ input = [kind |-> "File", path |-> "video.webm"]
  /\ output = [kind |-> "File", path |-> "test2.mp3"]

InitProgress ==
  /\ BuilderOfTest
  /\ CmdIdle
  /\ ptask = "accepting"
  /\ lines \in SeqsUpTo(LineSet, MaxLines)
  /\ progress = ProgressDefault
  /\ dbged = <<>> /\ queue = <<>> /\ tx_open = TRUE /\ fed = <<>>
  /\ last_read = "none"
  /\ spc = "ret_ok" /\ sock_dir = "exists"
  /\ SessionIdle

NextProgress ==
  \/ AcceptOk
  \/ AcceptErr
  \/ ReadLine
  \/ ReadEof
  \/ ReadErr

SpecProgress == InitProgress /\ [][NextProgress]_vars

----------------------------------------------------------------------------
(* The session: the state spawn leaves (lib.rs 107-126), the child process *)
(* and Ffmpeg::wait (lib.rs 174-212).  Child::wait failing with an I/O     *)
(* error (the `?` of lib.rs 207) is left out: the child is one this        *)
(* session spawned and has not reaped.                                     *)

\* Child::stdin / Child::stdout are Some exactly when to_command declared the
\* direction piped (lib.rs 89, 100, 110)
HandleOf(decl) == IF decl = "piped" THEN "Some" ELSE "None"

\* the bytes a stream of n bytes delivers: 1, 2, ..., n
Bytes(n) == [i \in 1..n |-> i]

Init ==
  /\ global_options = <<>> /\ input_options = <<>> /\ output_options = <<>>
  /\ input \in Targets
  /\ output \in Targets
  /\ CmdIdle
  /\ ParserIdle
  /\ spc = "ret_ok" /\ sock_dir = "exists"
  /\ child_state = "running" /\ exit_status = "none" /\ reaped = FALSE
  /\ child_stdin = HandleOf(StdinDecl(input, "inherit"))
  /\ child_stdout = HandleOf(StdoutDecl(output, "inherit"))
  /\ stdin_open = (child_stdin = "Some")
  /\ stdout_open = (child_stdout = "Some")
  /\ written = <<>> /\ out_pipe = <<>> /\ out_closed = FALSE /\ in_pipe = <<>>
  /\ sink = <<>>
  /\ IF input.kind = "Stream"
     THEN source \in {Bytes(n) : n \in 0..MaxBytes} /\ source_ends \in BOOLEAN
     ELSE source = <<>> /\ source_ends = TRUE
  /\ drain = "unborn" /\ fill = "unborn"
  /\ pc = "idle" /\ wait_calls = 0 /\ result = "none"

SessionFrame == UNCHANGED <<builderVars, cmdVars, parserVars, spawnVars>>

(* ---- the child process, spawned at lib.rs 110 ---- *)

\* the child writes its next byte to its piped stdout; the write goes
\* through only while the session's end of the pipe is open
ChildWrite ==
  /\ child_state = "running"
  /\ output.kind = "Stream" /\ ~out_closed /\ stdout_open
  /\ Len(written) < MaxBytes
  /\ written' = Append(written, Len(written) + 1)
  /\ out_pipe' = Append(out_pipe, Len(written) + 1)
  /\ UNCHANGED <<child_state, exit_status, reaped, child_stdout, child_stdin,
                 out_closed, in_pipe, waitVars>>
  /\ SessionFrame

\* the child closes its stdout
ChildCloseStdout ==
  /\ child_state = "running"
  /\ output.kind = "Stream" /\ ~out_closed
  /\ out_closed' = TRUE
  /\ UNCHANGED <<child_state, exit_status, reaped, child_stdout, child_stdin,
                 written, out_pipe, in_pipe, waitVars>>
  /\ SessionFrame

\* the child reads a byte from its piped stdin
ChildRead ==
  /\ child_state = "running"
  /\ in_pipe # <<>>
  /\ in_pipe' = Tail(in_pipe)
  /\ UNCHANGED <<child_state, exit_status, reaped, child_stdout, child_stdin,
                 written, out_pipe, out_closed, waitVars>>
  /\ SessionFrame

\* the child exits, with success or not; its ends of the pipes close
ChildExit ==
  /\ child_state = "running"
  /\ child_state' = "exited"
  /\ exit_status' \in {"success", "failure"}
  /\ out_closed' = TRUE
  /\ in_pipe' = <<>>
  /\ UNCHANGED <<reaped, child_stdout, child_stdin, written, out_pipe, waitVars>>
  /\ SessionFrame

(* ---- Ffmpeg::wait ---- *)

Pending(f)  == f = "pending"
Finished(f) == f \in {"ok", "err"}
\* a future that is dropped before it finished
Dropped(f) == IF Pending(f) THEN "cancelled" ELSE f

\* wait() takes &mut self (lib.rs 174): the caller may call it whenever no
\* call is running, also after one has returned
CallWait ==
  /\ pc \in {"idle", "ret_ok", "ret_err"}
  /\ wait_calls < MaxWaitCalls
  /\ wait_calls' = wait_calls + 1
  /\ pc' = "l175"
  /\ result' = "none"
  /\ UNCHANGED <<childVars, sink, source, source_ends, stdin_open, stdout_open, drain, fill>>
  /\ SessionFrame

\* lib.rs 175: self.child.stdout.take().unwrap()
TakeStdout ==
  /\ pc = "l175"
  /\ IF child_stdout = "Some"
     THEN child_stdout' = "None" /\ pc' = "l176"
     ELSE child_stdout' = child_stdout /\ pc' = "panic175"
  /\ UNCHANGED <<child_state, exit_status, reaped, child_stdin, written, out_pipe,
                 out_closed, in_pipe, sink, source, source_ends, stdin_open,
                 stdout_open, drain, fill, wait_calls, result>>
  /\ SessionFrame

\* lib.rs 176: self.child.stdin.take().unwrap(); a panic here unwinds and
\* drops the stdout handle taken at lib.rs 175.  The two futures of
\* lib.rs 178-197 are created next; they run when select! polls them.
TakeStdin ==
  /\ pc = "l176"
  /\ IF child_stdin = "Some"
     THEN /\ child_stdin' = "None"
          /\ pc' = "l199"
          /\ drain' = "pending" /\ fill' = "pending"
          /\ UNCHANGED stdout_open
     ELSE /\ child_stdin' = child_stdin
          /\ pc' = "panic176"
          /\ stdout_open' = FALSE
          /\ UNCHANGED <<drain, fill>>
  /\ UNCHANGED <<child_state, exit_status, reaped, child_stdout, written, out_pipe,
                 out_closed, in_pipe, sink, source, source_ends, stdin_open,
                 wait_calls, result>>
  /\ SessionFrame

\* lib.rs 178-187, the `stdout` future: nothing to do for a File, else
\* tokio::io::copy from the child's stdout to the caller's stream; here one
\* byte is read and written
DrainCopy ==
  /\ pc = "l199" /\ Pending(drain)
  /\ IF output.kind = "File"
     THEN /\ drain' = "ok"
          /\ UNCHANGED <<out_pipe, sink>>
     ELSE /\ out_pipe # <<>>
          /\ sink' = Append(sink, Head(out_pipe))
          /\ out_pipe' = Tail(out_pipe)
          /\ UNCHANGED drain
  /\ UNCHANGED <<child_state, exit_status, reaped, child_stdout, child_stdin, written,
                 out_closed, in_pipe, source, source_ends, stdin_open, stdout_open,
                 fill, pc, wait_calls, result>>
  /\ SessionFrame

\* lib.rs 182-184: copy reads end-of-file (the pipe is empty and the child
\* closed it) and returns Ok; stdout is dropped
DrainEof ==
  /\ pc = "l199" /\ Pending(drain)
  /\ output.kind = "Stream"
  /\ out_pipe = <<>> /\ out_closed
  /\ drain' = "ok"
  /\ stdout_open' = FALSE
  /\ UNCHANGED <<childVars, sink, source, source_ends, stdin_open, fill, pc,
                 wait_calls, result>>
  /\ SessionFrame

\* lib.rs 182: a read of the pipe or a write to the caller's stream fails;
\* `?` ends the future with the error
DrainErr ==
  /\ pc = "l199" /\ Pending(drain)
  /\ output.kind = "Stream"
  /\ drain' = "err"
  /\ stdout_open' = FALSE
  /\ UNCHANGED <<childVars, sink, source, source_ends, stdin_open, fill, pc,
                 wait_calls, result>>
  /\ SessionFrame

\* lib.rs 188-197, the `stdin` future: nothing to do for a File, else
\* tokio::io::copy from the caller's stream to the child's stdin
FillCopy ==
  /\ pc = "l199" /\ Pending(fill)
  /\ IF input.kind = "File"
     THEN /\ fill' = "ok"
          /\ UNCHANGED <<source, in_pipe>>
     ELSE /\ source # <<>>
          /\ child_state = "running"
          /\ in_pipe' = Append(in_pipe, Head(source))
          /\ source' = Tail(source)
          /\ UNCHANGED fill
  /\ UNCHANGED <<child_state, exit_status, reaped, child_stdout, child_stdin, written,
                 out_pipe, out_closed, sink, source_ends, stdin_open, stdout_open,
                 drain, pc, wait_calls, result>>
  /\ SessionFrame

\* lib.rs 193: the `stdin` future owns the handle (drop(stdin) moves it into
\* the async block), so it is closed as soon as copy has returned
StdinAfterFillKept(open) == open
StdinAfterFill(open) == FALSE

\* lib.rs 192-194: the caller's stream is at end-of-input, copy returns Ok;
\* stdin is dropped, which closes the child's stdin
FillEof ==
  /\ pc = "l199" /\ Pending(fill)
  /\ input.kind = "Stream"
  /\ source = <<>> /\ source_ends
  /\ fill' = "ok"
  /\ stdin_open' = StdinAfterFill(stdin_open)
  /\ UNCHANGED <<childVars, sink, source, source_ends, stdout_open, drain, pc,
                 wait_calls, result>>
  /\ SessionFrame

\* lib.rs 192: a read of the caller's stream or a write to the pipe fails
FillErr ==
  /\ pc = "l199" /\ Pending(fill)
  /\ input.kind = "Stream"
  /\ fill' = "err"
  /\ stdin_open' = FALSE
  /\ UNCHANGED <<childVars, sink, source, source_ends, stdout_open, drain, pc,
                 wait_calls, result>>
  /\ SessionFrame

\* lib.rs 200: the first branch of select! is ready when the child has exited
ExitBranchReadyAfterCopies == child_state = "exited" /\ Finished(drain) /\ Finished(fill)
ExitBranchReady == child_state = "exited"

\* lib.rs 201: zip is ready when both futures have finished
ZipReady == Finished(drain) /\ Finished(fill)

\* lib.rs 200: child.wait() wins the race; zip and its two futures are
\* dropped with whatever they had not done, and with them both handles
SelectExit ==
  /\ pc = "l199"
  /\ ExitBranchReady
  /\ reaped' = TRUE
  /\ drain' = Dropped(drain) /\ fill' = Dropped(fill)
  /\ stdin_open' = FALSE /\ stdout_open' = FALSE
  /\ pc' = "l207"
  /\ UNCHANGED <<child_state, exit_status, child_stdout, child_stdin, written,
                 out_pipe, out_closed, in_pipe, sink, source, source_ends,
                 wait_calls, result>>
  /\ SessionFrame

\* lib.rs 201-204: zip wins the race; `read?` and `write?` return the first
\* error from wait(), else wait() goes on to lib.rs 207
SelectZip ==
  /\ pc = "l199"
  /\ ZipReady
  /\ IF drain = "err" \/ fill = "err"
     THEN pc' = "ret_err" /\ result' = "Err"
     ELSE pc' = "l207" /\ result' = result
  /\ UNCHANGED <<childVars, sink, source, source_ends, stdin_open, stdout_open,
                 drain, fill, wait_calls>>
  /\ SessionFrame

\* lib.rs 207: ExitStatus::success()
ExitSuccessAny(status) == TRUE
ExitSuccess(status) == status = "success"

\* lib.rs 207-211: child.wait() returns the exit status once the child has
\* exited; panic unless it is a success, else Ok(())
FinalWait ==
  /\ pc = "l207"
  /\ child_state = "exited"
  /\ reaped' = TRUE
  /\ IF ExitSuccess(exit_status)
     THEN pc' = "ret_ok" /\ result' = "Ok"
     ELSE pc' = "panic208" /\ result' = result
  /\ UNCHANGED <<child_state, exit_status, child_stdout, child_stdin, written,
                 out_pipe, out_closed, in_pipe, sink, source, source_ends,
                 stdin_open, stdout_open, drain, fill, wait_calls>>
  /\ SessionFrame

\* the steps of wait() itself, which the executor takes when they are ready
WaitStep == TakeStdout \/ TakeStdin \/ SelectExit \/ SelectZip \/ FinalWait

Next ==
  \/ ChildWrite
  \/ ChildCloseStdout
  \/ ChildRead
  \/ ChildExit
  \/ CallWait
  \/ TakeStdout
  \/ TakeStdin
  \/ DrainCopy
  \/ DrainEof
  \/ DrainErr
  \/ FillCopy
  \/ FillEof
  \/ FillErr
  \/ SelectExit
  \/ SelectZip
  \/ FinalWait

Spec == Init /\ [][Next]_vars

\* the caller awaits wait(): the executor polls it again whenever the child's
\* exit or a finished future has woken it, so a ready step of wait() is taken
FairSpec == Spec /\ WF_vars(WaitStep)

----------------------------------------------------------------------------
(* A whole run: FfmpegBuilder::spawn (lib.rs 107-126) with TempSocket::new *)
(* (lib.rs 20-31), then the session, its child and the background task     *)
(* side by side, until the caller drops the session.  The unwrap of        *)
(* to_str() at lib.rs 109 is left out: tempfile makes UTF-8 paths under a  *)
(* UTF-8 temporary directory.                                              *)

\* to_command as spawn calls it at lib.rs 109: the statements of lib.rs 75-104
BuiltCommand(url) ==
  LET c1 == Arg(Arg(NoCmd, "-progress"), url)
      c2 == Args(Args(c1, global_options), input_options)
      c3 == [Arg(Arg(c2, "-i"), InputLocator(input)) EXCEPT !.stdin = StdinDecl(input, @)]
      c4 == Args(c3, output_options)
  IN  [Arg(c4, OutputLocator(output)) EXCEPT !.stdout = StdoutDecl(output, @)]

\* the `?` of lib.rs 24 and 110 return from spawn and drop the TempDir made at
\* lib.rs 22: Drop of tempfile::TempDir removes the directory
DirAfterSpawnErrKept(d) == d
DirAfterSpawnErr(d) == IF d = "exists" THEN "removed" ELSE d

\* lib.rs 109: format!("unix://{}", path), for the directory tempfile made
SockUrl == "unix:///tmp/a/sock"

\* what the progress connection delivers in a run, should the child connect
RunLines == {<<>>, <<L_continue>>, <<L_sizeNA>>}

InitRun ==
  /\ global_options = <<>> /\ input_options = <<>> /\ output_options = <<>>
  /\ input \in Targets
  /\ output \in Targets
  /\ CmdIdle
  /\ ptask = "off" /\ lines \in RunLines /\ progress = ProgressDefault
  /\ dbged = <<>> /\ queue = <<>> /\ tx_open = TRUE /\ fed = <<>>
  /\ last_read = "none"
  /\ spc = "l22" /\ sock_dir = "none"
  /\ child_state = "off" /\ exit_status = "none" /\ reaped = FALSE
  /\ child_stdout = "None" /\ child_stdin = "None"
  /\ written = <<>> /\ out_pipe = <<>> /\ out_closed = FALSE /\ in_pipe = <<>>
  /\ sink = <<>>
  /\ IF input.kind = "Stream"
     THEN source \in {Bytes(n) : n \in 0..MaxBytes} /\ source_ends \in BOOLEAN
     ELSE source = <<>> /\ source_ends = TRUE
  /\ stdin_open = FALSE /\ stdout_open = FALSE
  /\ drain = "unborn" /\ fill = "unborn"
  /\ pc = "off" /\ wait_calls = 0 /\ result = "none"

SpawnFrame == UNCHANGED <<builderVars, parserVars, waitVars>>

\* lib.rs 108, 22: tempfile::tempdir() makes the directory, or fails and `?`
\* returns the error from TempSocket::new and from spawn
TempDirNew ==
  /\ spc = "l22"
  /\ \/ spc' = "l24" /\ sock_dir' = "exists"
     \/ spc' = "err108" /\ sock_dir' = sock_dir
  /\ UNCHANGED <<cmdVars, childVars>>
  /\ SpawnFrame

\* lib.rs 108, 23-24: UnixListener::bind on the path in the directory, or it
\* fails and `?` returns the error, dropping `dir`
SocketBind ==
  /\ spc = "l24"
  /\ \/ spc' = "l109" /\ sock_dir' = sock_dir
     \/ spc' = "err108" /\ sock_dir' = DirAfterSpawnErr(sock_dir)
  /\ UNCHANGED <<cmdVars, childVars>>
  /\ SpawnFrame

\* lib.rs 109: to_command with the address of the socket
SpawnToCommand ==
  /\ spc = "l109"
  /\ progress_url' = SockUrl
  /\ cmd' = BuiltCommand(SockUrl)
  /\ spc' = "l110"
  /\ UNCHANGED <<cpc, sock_dir, childVars>>
  /\ SpawnFrame

\* lib.rs 110: cmd.spawn() starts the child with the declared pipes, or it
\* fails and `?` returns the error, dropping progress_sock
SpawnChild ==
  /\ spc = "l110"
  /\ \/ /\ spc' = "l112"
        /\ child_state' = "running"
        /\ child_stdin' = HandleOf(cmd.stdin)
        /\ child_stdout' = HandleOf(cmd.stdout)
        /\ UNCHANGED <<sock_dir, stdin_open, stdout_open>>
     \/ /\ spc' = "err110"
        /\ sock_dir' = DirAfterSpawnErr(sock_dir)
        /\ UNCHANGED <<child_state, child_stdin, child_stdout, stdin_open, stdout_open>>
  /\ UNCHANGED <<cmdVars, exit_status, reaped, written, out_pipe, out_closed, in_pipe>>
  /\ UNCHANGED <<builderVars, parserVars, sink, source, source_ends, drain, fill,
                 pc, wait_calls, result>>

\* lib.rs 112-125: the channel, the background task (which takes
\* progress_sock with it) and the session; spawn returns Ok
SpawnTask ==
  /\ spc = "l112"
  /\ spc' = "ret_ok"
  /\ ptask' = "accepting"
  /\ pc' = "idle"
  /\ stdin_open' = (child_stdin = "Some")
  /\ stdout_open' = (child_stdout = "Some")
  /\ UNCHANGED <<builderVars, cmdVars, childVars, sock_dir>>
  /\ UNCHANGED <<lines, progress, dbged, queue, tx_open, fed, last_read>>
  /\ UNCHANGED <<sink, source, source_ends, drain, fill, wait_calls, result>>

\* the caller releases the session, between calls of wait(), after a panic of
\* wait() or by dropping a wait() that has not finished: Ffmpeg has no Drop
\* of its own, its fields are dropped (the child's handles, progress_rx); the
\* child is not killed and the background task is not touched
DropSession ==
  /\ pc \notin {"off", "dropped"}
  /\ pc' = "dropped"
  /\ child_stdin' = "None" /\ child_stdout' = "None"
  /\ stdin_open' = FALSE /\ stdout_open' = FALSE
  /\ drain' = Dropped(drain) /\ fill' = Dropped(fill)
  /\ UNCHANGED <<child_state, exit_status, reaped, written, out_pipe, out_closed,
                 in_pipe, sink, source, source_ends, wait_calls, result>>
  /\ SessionFrame

NextRun ==
  \/ TempDirNew
  \/ SocketBind
  \/ SpawnToCommand
  \/ SpawnChild
  \/ SpawnTask
  \/ AcceptOk
  \/ AcceptErr
  \/ ReadLine
  \/ ReadEof
  \/ ReadErr
  \/ Next
  \/ DropSession

SpecRun == InitRun /\ [][NextRun]_vars

\* as FairSpec: the executor takes the ready steps of an awaited wait()
FairRun == SpecRun /\ WF_vars(WaitStep)

----------------------------------------------------------------------------
(* Claims about the session, checked under Spec and FairSpec *)

\* the running call of wait() is over: it returned or it panicked
WaitOver == pc \in {"ret_ok", "ret_err", "panic175", "panic176", "panic208"}

\* every copy loop the session has to run has finished with success
CopyingComplete ==
  /\ input.kind = "Stream" => fill = "ok"
  /\ output.kind = "Stream" => drain = "ok"

\* C1: with a File input or a File output (or both), the first wait() does
\* not fail while taking the child's stdin/stdout handles, and when the child
\* exits with status 0 it returns Ok.
C1_FileTargetsDoNotFailWait ==
  (wait_calls = 1 /\ (input.kind = "File" \/ output.kind = "File")) =>
    /\ pc \notin {"panic175", "panic176"}
    /\ (WaitOver /\ exit_status = "success") => result = "Ok"

\* C2: once the child has exited while wait() is in the race of lib.rs 199,
\* wait() comes to an end, whether or not the copy loops ever finish.
C2_ExitEndsWait == (pc = "l199" /\ child_state = "exited") ~> WaitOver

\* wait() returned Ok although the caller's input never reaches end-of-input:
\* the fill loop was cancelled, not awaited
C2_Witness ==
  /\ pc = "ret_ok"
  /\ ~source_ends
  /\ fill = "cancelled"

\* C3: on every path by which wait() returns after the race, the child's exit
\* status has been awaited: wait() never returns with the child unreaped.
C3_ReapedBeforeReturn == pc \in {"ret_ok", "ret_err"} => reaped

\* C4: an I/O error of the drain or the fill loop is what the first wait()
\* returns, whatever the other loop and the child do (a child that exits
\* with failure is left aside: that run ends in the panic of lib.rs 208).
C4_CopyErrorReturned ==
  (wait_calls = 1 /\ WaitOver /\ exit_status # "failure"
     /\ (drain = "err" \/ fill = "err")) => result = "Err"

\* C5: when the child exited with status 0 and all stream copying has
\* completed, wait() reports success, and no second wait() is ever started
\* on the session.
C5_SuccessExactlyOnce ==
  /\ (wait_calls = 1 /\ WaitOver /\ exit_status = "success" /\ CopyingComplete)
       => result = "Ok"
  /\ wait_calls <= 1

\* C6: with a File input and a Stream output, when wait() is over the sink
\* holds exactly the bytes the child wrote to its stdout before closing it.
C6_SinkHoldsChildOutput ==
  (wait_calls = 1 /\ input.kind = "File" /\ output.kind = "Stream"
     /\ WaitOver /\ out_closed) => sink = written

----------------------------------------------------------------------------
(* Claims about to_command, checked under SpecCmd *)

\* to_command has reached `cmd` of lib.rs 104: the Command it returns
CmdBuilt == cpc = "l104"

\* C9: for every invocation spec and progress address, the arguments of the
\* built command are, in this order and with each list's own order kept:
\* -progress, the address, the global options, the input options, -i, the
\* input locator (pipe:0 for a Stream, else the path), the output options,
\* the output locator (pipe:1 for a Stream, else the path).
C9_ArgumentOrder ==
  CmdBuilt =>
    cmd.args = <<"-progress", progress_url>>
                 \o global_options
                 \o input_options
                 \o <<"-i", IF input.kind = "Stream" THEN "pipe:0" ELSE input.path>>
                 \o output_options
                 \o <<IF output.kind = "Stream" THEN "pipe:1" ELSE output.path>>

\* a Stream-to-Stream command with all three option lists filled, two of
\* them with two different options in the order -an, -y
C9_Witness ==
  /\ CmdBuilt
  /\ input.kind = "Stream" /\ output.kind = "Stream"
  /\ global_options = <<"-an", "-y">>
  /\ input_options = <<"-y">>
  /\ output_options = <<"-y", "-an">>
  /\ cmd.args = <<"-progress", progress_url, "-an", "-y", "-y", "-i", "pipe:0",
                 "-y", "-an", "pipe:1">>

\* C10: the built command declares stdin piped iff the input is a Stream and
\* stdout piped iff the output is a Stream, each direction on its own.
C10_PipedIffStream ==
  CmdBuilt =>
    /\ (cmd.stdin = "piped") <=> (input.kind = "Stream")
    /\ (cmd.stdout = "piped") <=> (output.kind = "Stream")

\* the mixed case: File input, Stream output, only stdout declared
C10_Witness ==
  /\ CmdBuilt
  /\ input.kind = "File" /\ output.kind = "Stream"
  /\ cmd.stdin = "inherit" /\ cmd.stdout = "piped"

----------------------------------------------------------------------------
(* Claims about the progress parser, checked under SpecProgress *)

\* a line of the protocol whose key is `progress` / `total_size`
IsSentinelLine(line) == Len(line) >= 2 /\ line[1] = "progress" /\ line[2] = "="
IsSizeLine(line)     == Len(line) >= 2 /\ line[1] = "total_size" /\ line[2] = "="

\* the places in fed of the sentinel lines, and the place of the i-th
SentinelPlaces == {j \in 1..Len(fed) : IsSentinelLine(fed[j])}
SentinelPlace(i) ==
  CHOOSE j \in SentinelPlaces : Cardinality({m \in SentinelPlaces : m <= j}) = i

\* the frame that the sentinel at place j closes: the lines after the
\* sentinel before it (or after the start)
FrameOf(j) ==
  LET before == {m \in SentinelPlaces : m < j}
      start  == IF before = {} THEN 0 ELSE CHOOSE m \in before : \A n \in before : n <= m
  IN  (start + 1)..(j - 1)

\* the record of the frame closed at place j: its last total_size, if any
RecordOfFrame(j) ==
  LET sizes == {m \in FrameOf(j) : IsSizeLine(fed[m])}
  IN  IF sizes = {} THEN [total_size |-> None]
      ELSE LET last == CHOOSE m \in sizes : \A n \in sizes : n <= m
           IN  [total_size |-> Some(ParseU64(SubSeq(fed[last], 3, Len(fed[last]))))]

\* one record per sentinel line processed, each holding its own frame
ExpectedRecords ==
  [i \in 1..Cardinality(SentinelPlaces) |-> RecordOfFrame(SentinelPlace(i))]

\* C7: each line whose key is `progress` puts exactly one record, holding the
\* fields accumulated since the previous sentinel, on the progress queue the
\* session reads.
C7_SentinelQueuesRecord == queue = ExpectedRecords

\* C8: right after a `progress` line the accumulator is the empty record, and
\* every record the parser yields holds only the fields of its own frame
\* (two sentinels in a row yield two records, the second one empty).
C8_ResetAfterSentinel ==
  /\ (fed # <<>> /\ IsSentinelLine(fed[Len(fed)])) => progress = ProgressDefault
  /\ dbged = ExpectedRecords

\* total_size=7, then two sentinels in a row: the second record is empty
C8_Witness ==
  /\ fed = <<L_size7, L_continue, L_continue>>
  /\ dbged = <<[total_size |-> Some(7)], [total_size |-> None]>>
  /\ progress = ProgressDefault

\* a line with a key that is neither `total_size` nor `progress`
IsUnknownKeyLine(line) ==
  /\ \E i \in 1..Len(line) : line[i] = "="
  /\ ~IsSentinelLine(line)
  /\ ~IsSizeLine(line)

\* the record of the frame still open after the lines processed so far
OpenFrameRecord == RecordOfFrame(Len(fed) + 1)

\* C14: the turn of the loop that takes a line with an unrecognized key
\* leaves every field of the accumulator as it was, yields and queues no
\* record and does not stop the parser; and the accumulator always is what
\* the recognized lines of the open frame alone make it.
C14_UnknownKeyIgnored ==
  /\ [][(/\ ptask = "reading"
         /\ lines # <<>>
         /\ IsUnknownKeyLine(Head(lines))
         /\ lines' = Tail(lines))
        => (/\ progress' = progress
            /\ dbged' = dbged
            /\ queue' = queue
            /\ ptask' = "reading")]_vars
  /\ [](ptask = "reading" => progress = OpenFrameRecord)

\* total_size=7, an unknown key, then the sentinel: the record still holds 7
C14_Witness ==
  /\ ptask = "reading"
  /\ fed = <<L_size7, L_bitrate, L_continue>>
  /\ dbged = <<[total_size |-> Some(7)]>>

\* C15: a total_size line whose value is no unsigned 64-bit integer does not
\* crash the parser task.
C15_BadSizeDoesNotCrash == ptask # "panic138"

\* C16: the task ends normally exactly on a clean closure of the connection,
\* without yielding the record of the open frame, and ends with the read
\* error (the panic of lib.rs 134 that carries it) exactly on a failed read.
C16_EofAndReadErrorDistinct ==
  /\ last_read = "eof" => (ptask = "ended" /\ dbged = ExpectedRecords)
  /\ last_read = "err" => ptask = "panic134"
  /\ ptask = "ended" => last_read = "eof"
  /\ ptask = "panic134" => last_read = "err"

\* a clean closure with total_size=7 accumulated: ended, nothing yielded
C16_Witness ==
  /\ ptask = "ended"
  /\ last_read = "eof"
  /\ fed = <<L_size7>>
  /\ progress = [total_size |-> Some(7)]
  /\ dbged = <<>>

----------------------------------------------------------------------------
(* Further claims about the session, checked under Spec *)

\* C12: when the child's exit status is not a success, the first wait()
\* never returns a value, neither Ok nor Err: it ends in a panic.
C12_FailureNeverReturns ==
  (wait_calls = 1 /\ exit_status = "failure") => pc \notin {"ret_ok", "ret_err"}

\* C17: with a Stream input, once the fill loop has copied the input up to
\* end-of-input the session's end of the child's stdin is closed, whatever
\* the drain loop and the child are doing.
C17_StdinClosedAfterFill ==
  (input.kind = "Stream" /\ fill = "ok") => ~stdin_open

\* fill is done and stdin closed with a copied byte still in the pipe, while
\* wait() is in the race, the drain loop is still copying and the child runs
C17_Witness ==
  /\ pc = "l199"
  /\ fill = "ok" /\ ~stdin_open
  /\ in_pipe # <<>>
  /\ Pending(drain)
  /\ child_state = "running"

\* C18: wait() has returned Ok only if the child has exited with success;
\* after both copy loops have finished with the child still running, wait()
\* has not returned.
C18_OkOnlyAfterSuccessfulExit ==
  /\ (pc = "ret_ok" \/ result = "Ok") =>
       (child_state = "exited" /\ exit_status = "success" /\ reaped)
  /\ (child_state = "running" /\ drain = "ok" /\ fill = "ok" /\ wait_calls = 1)
       => (pc = "l199" \/ pc = "l207") /\ result = "none"

\* both copy loops finished first: wait() is at lib.rs 207, the child runs
C18_Witness ==
  /\ pc = "l207"
  /\ child_state = "running"
  /\ drain = "ok" /\ fill = "ok"
  /\ result = "none"

----------------------------------------------------------------------------
(* Claims about a whole run, checked under SpecRun and FairRun *)

\* C11: once the session that owns a run has been released, the directory
\* of the rendezvous endpoint no longer exists.
C11_DirGoneAfterRelease == pc = "dropped" => sock_dir # "exists"

\* the background task has failed, or has not got a connection
TaskFailedOrStuck == ptask \in {"accepting", "panic114", "panic134", "panic138"}

\* C13: a step of the background task, a failure of it included, changes
\* nothing of the session, of wait() or of the child; and also with the task
\* failed or still waiting for a connection, wait() comes to an end once
\* the child has exited while it is in the race.
C13_ProgressFailureConfined ==
  /\ [][(ptask # "off" /\ (ptask' # ptask \/ lines' # lines))
         => UNCHANGED <<childVars, waitVars>>]_vars
  /\ (TaskFailedOrStuck /\ pc = "l199" /\ child_state = "exited")
       ~> (WaitOver \/ pc = "dropped")

\* the task panicked on an unparsable value while wait() was in the race;
\* both copy loops finished and wait() returned Ok all the same
C13_Witness ==
  /\ ptask = "panic138"
  /\ pc = "ret_ok"
  /\ drain = "ok" /\ fill = "ok"

\* C19: when spawn() has returned an error, no session and no background
\* task exist, no child was started by a failed endpoint creation, and the
\* directory of an endpoint that had been created is removed.
C19_FailedSpawnLeavesNothing ==
  spc \in {"err108", "err110"} =>
    /\ pc = "off"
    /\ ptask = "off"
    /\ child_state = "off"
    /\ sock_dir # "exists"

\* spawning the child failed after the endpoint had been created
C19_Witness ==
  /\ spc = "err110"
  /\ sock_dir = "removed"
  /\ pc = "off" /\ ptask = "off"

====
